---- MODULE Spec2Model ----
(***************************************************************************)
(* Model of the GCD collection generator of gcdserver-api                  *)
(* (src/src/api/gcd.rs) and of the document-store handlers it reads from.  *)
(*                                                                         *)
(* Six specifications share the module:                                    *)
(*   SpecFilter    the pure function filter_calibrations_for_run applied   *)
(*                 to every bounded input list;                            *)
(*   Spec          the handlers of the service running interleaved         *)
(*                 against the four MongoDB collections;                   *)
(*   SpecRequests  generate_gcd_collection requests running concurrently   *)
(*                 against a store nobody writes to, with the responses    *)
(*                 they return, and get_gcd_collection;                    *)
(*   SpecAuth      AuthMiddlewareService::call and the application main    *)
(*                 assembles;                                              *)
(*   SpecJwt       JwtManager::generate_token and verify_token;            *)
(*   SpecHandlers  the run_metadata and calibration handlers with the      *)
(*                 response each call returns.                             *)
(* Timestamps (chrono DateTime<Utc>) are integers; 0 is the Unix epoch.    *)
(***************************************************************************)
EXTENDS Integers, Sequences, FiniteSets, TLC

\* ------------------------------------------------------------------ bounds
MaxLen == 3
MaxTime == 2
MaxWrites == 2

Devices == {161, 162}

\* Option<T>: None is the empty sequence, Some(x) the one-element sequence.
None == <<>>

Some(x) == <<x>>

\* Timestamps of calibration records, and the run starts they are compared to.
Times == 1..MaxTime

StartTimes == 0..MaxTime

VARIABLES
    in_cals,      \* SpecFilter: the calibration list handed to the function
    in_start,     \* SpecFilter: run_start
    fpc,          \* SpecFilter: "input", then the kind of call pair made
    in2,          \* SpecFilter: the list of the second call
    end1, end2,   \* SpecFilter: _run_end of the first and second call
    out1, out2    \* SpecFilter: the Vec returned by the first and second call

fvars == <<in_cals, in_start, fpc, in2, end1, end2, out1, out2>>

VARIABLES
    calibration,      \* collection "calibration", in natural (insertion) order
    geometry,         \* collection "geometry"
    detector_status,  \* collection "detector_status"
    run_metadata,     \* collection "run_metadata"
    now,              \* Utc::now()
    writes,           \* number of write requests served
    gen               \* the generate_gcd_collection request

svars == <<calibration, geometry, detector_status, run_metadata, now, writes, gen>>

VARIABLES
    reqs,    \* SpecRequests: the generate_gcd_collection requests in flight
    lookup   \* SpecRequests: the last get_gcd_collection request and its outcome

gvars == <<reqs, lookup>>

VARIABLES
    http,    \* SpecAuth: the last request served and what became of it
    jwt,     \* SpecJwt: the last token generated and its verification
    resp     \* SpecHandlers: the last handler call and its response

avars == <<http, jwt, resp>>

vars == <<in_cals, in_start, fpc, in2, end1, end2, out1, out2,
          calibration, geometry, detector_status, run_metadata, now, writes, gen,
          reqs, lookup, http, jwt, resp>>

\* ------------------------------------------------------- sequence helpers
Range(s) == {s[i] : i \in DOMAIN s}

Min(S) == CHOOSE x \in S : \A y \in S : x <= y

Max(S) == CHOOSE x \in S : \A y \in S : x >= y

Perms(n) == {p \in [1..n -> 1..n] : \A i, j \in 1..n : p[i] = p[j] => i = j}

Permute(s, p) == [i \in 1..Len(s) |-> s[p[i]]]

\* --------------------------------------------- filter_calibrations_for_run
\* A Calibration: dom_id, domcal (opaque payload), timestamp.
Cal(d, p, t) == [dom_id |-> d, domcal |-> p, timestamp |-> t]

\* dom_calibrations.entry(cal.dom_id).or_insert_with(Vec::new).push(cal):
\* the group of a device holds its records in input order.
GroupOf(calibrations, d) == SelectSeq(calibrations, LAMBDA c : c.dom_id = d)

\* The keys of the HashMap built by the grouping loop.
GroupKeys(calibrations) == {calibrations[i].dom_id : i \in DOMAIN calibrations}

\* for (_dom_id, cals) in dom_calibrations: a HashMap is iterated in an
\* unspecified order (RandomState is seeded per map), each key once.
IterOrders(calibrations) ==
    LET K == GroupKeys(calibrations)
    IN  {o \in [1..Cardinality(K) -> K] : \A i, j \in DOMAIN o : o[i] = o[j] => i = j}

\* cals.sort_by(|a, b| b.timestamp.cmp(&a.timestamp)): a stable sort, newest
\* first; records of equal timestamp keep their relative order.
RECURSIVE SortDescIntoUnstable(_, _)
SortDescIntoUnstable(sorted, rest) ==
    IF rest = <<>> THEN sorted
    ELSE LET c == Head(rest)
             before == SelectSeq(sorted, LAMBDA x : x.timestamp > c.timestamp)
             after == SelectSeq(sorted, LAMBDA x : x.timestamp <= c.timestamp)
         IN  SortDescIntoUnstable(before \o <<c>> \o after, Tail(rest))

RECURSIVE SortDescInto(_, _)
SortDescInto(sorted, rest) ==
    IF rest = <<>> THEN sorted
    ELSE LET c == Head(rest)
             before == SelectSeq(sorted, LAMBDA x : x.timestamp >= c.timestamp)
             after == SelectSeq(sorted, LAMBDA x : x.timestamp < c.timestamp)
         IN  SortDescInto(before \o <<c>> \o after, Tail(rest))

SortKeepInputOrder(cals) == cals

SortDesc(cals) == SortDescInto(<<>>, cals)

\* cals.iter().find(|cal| cal.timestamp <= run_start): index of the first
\* match, 0 when there is none.
FindAtOrBeforeStrict(cals, run_start) ==
    LET hits == {i \in DOMAIN cals : cals[i].timestamp < run_start}
    IN  IF hits = {} THEN 0 ELSE Min(hits)

FindAtOrBefore(cals, run_start) ==
    LET hits == {i \in DOMAIN cals : cals[i].timestamp <= run_start}
    IN  IF hits = {} THEN 0 ELSE Min(hits)

\* .or_else(|| cals.last().cloned()): index of the last element, 0 if empty.
FallbackNewest(cals) == IF Len(cals) = 0 THEN 0 ELSE 1

FallbackNone(cals) == 0

FallbackIndex(cals) == Len(cals)

\* The branch that produced the selection of one group:
\* "find", "last" (the fallback) or "first" (unwrap_or_else(|| cals[0])).
SelectBranch(group, run_start) ==
    LET cals == SortDesc(group)
    IN  IF FindAtOrBefore(cals, run_start) # 0 THEN "find"
        ELSE IF FallbackIndex(cals) # 0 THEN "last"
        ELSE "first"

SelectNewest(group, run_start) == SortDesc(group)[1]

\* let selected = find(..).or_else(last).unwrap_or_else(|| cals[0].clone())
SelectCalibration(group, run_start) ==
    LET cals == SortDesc(group)
        f == FindAtOrBefore(cals, run_start)
        l == FallbackIndex(cals)
    IN  IF f # 0 THEN cals[f]
        ELSE IF l # 0 THEN cals[l]
        ELSE cals[1]

\* The whole function; iter_order is the order in which the HashMap yields
\* its groups. run_end is received and not read.
FilterUsingRunEnd(calibrations, run_start, run_end, iter_order) ==
    [i \in DOMAIN iter_order |->
        SelectCalibration(GroupOf(calibrations, iter_order[i]),
                          IF run_end = None THEN run_start ELSE run_end[1])]

FilterPerRecord(calibrations, run_start, run_end, iter_order) ==
    [i \in DOMAIN calibrations |->
        SelectCalibration(GroupOf(calibrations, calibrations[i].dom_id), run_start)]

FilterDropLast(calibrations, run_start, run_end, iter_order) ==
    [i \in 1..(Len(iter_order) - 1) |->
        SelectCalibration(GroupOf(calibrations, iter_order[i]), run_start)]

filter_calibrations_for_run(calibrations, run_start, run_end, iter_order) ==
    [i \in DOMAIN iter_order |->
        SelectCalibration(GroupOf(calibrations, iter_order[i]), run_start)]

\* ---------------------------------------------------------------- the store
\* A u32 run number is the pair <<bit 31, low 31 bits>>: <<0, n>> is n and
\* <<1, n>> is 2^31 + n.
HalfI32 == 1073741824

Runs == {<<0, 1>>, <<1, 1>>}

\* run_num as i32: the two's-complement reinterpretation of the u32.
AsI32(run_num) ==
    IF run_num[1] = 0 THEN run_num[2] ELSE (run_num[2] - HalfI32) - HalfI32

\* BSON compares numbers by value: a stored u32 (serialised as a 64-bit
\* integer) equals an Int32 key only if it is below 2^31 and has that value.
KeyMatches(stored, key) == stored[1] = 0 /\ stored[2] = key

Payloads == {"domcal"}
Flags == {FALSE}
Positions == {61, 62}
Emails == {"operator@example.com"}

RunMeta(r, s, e) == [run_number |-> r, start_time |-> s, end_time |-> e]

Geo(st, p, t) == [string |-> st, position |-> p, timestamp |-> t]

\* A status document stamped with a run.
StatusOfFirstRun(d, b, t) ==
    [dom_id |-> d, is_bad |-> b, timestamp |-> t, run_number |-> Some(<<0, 1>>)]

\* DetectorStatus has no run_number field: documents written by the handlers
\* carry none (run_number = None).
Status(d, b, t) == [dom_id |-> d, is_bad |-> b, timestamp |-> t, run_number |-> None]

Store == [calibration |-> calibration, geometry |-> geometry,
          detector_status |-> detector_status, run_metadata |-> run_metadata]

\* find_one / update_one / delete_one act on the first matching document:
\* its index among the matching indices, 0 when nothing matches.
FirstIndex(hits) == IF hits = {} THEN 0 ELSE Min(hits)

RemoveAt(col, i) == [j \in 1..(Len(col) - 1) |-> IF j < i THEN col[j] ELSE col[j + 1]]

\* run_metadata_col.find_one(doc! { "run_number": key }): Some(doc) or None.
FindRunMetadata(col, key) ==
    LET i == FirstIndex({j \in DOMAIN col : KeyMatches(col[j].run_number, key)})
    IN  IF i = 0 THEN None ELSE Some(col[i])

\* detector_status_col.find(doc! { "run_number": key })
FindStatusForRun(col, key) ==
    SelectSeq(col, LAMBDA st : st.run_number # None /\ KeyMatches(st.run_number[1], key))

\* ------------------------------------------------ generate_gcd_collection
\* let (start_time, end_time) = match run_metadata { Some(..) => stored,
\* None => (1970-01-01T00:00:00Z, Some(Utc::now())) }
Window(found, clock) ==
    IF found # None THEN <<found[1].start_time, found[1].end_time>>
    ELSE <<0, Some(clock)>>

\* What each of the four reads of a generation returns from a store state.
ReadWindow(st, run_num) == FindRunMetadata(st.run_metadata, AsI32(run_num))

ReadStatus(st, run_num) == FindStatusForRun(st.detector_status, AsI32(run_num))

GenIdle ==
    [pc |-> "idle", run |-> <<0, 0>>, claims |-> None, error |-> None,
     found |-> None, meta_seen |-> <<>>, start_time |-> 0, end_time |-> None,
     all_calibrations |-> <<>>, filtered |-> <<>>,
     geometry |-> <<>>, detector_status |-> <<>>, cand |-> {}]

\* The reads a generation has made so far, by its position.
HasReadMeta(g) == g.pc \in {"calibrations", "geometry", "status", "done"}

HasReadCals(g) == g.pc \in {"geometry", "status", "done"}

HasReadGeo(g) == g.pc \in {"status", "done"}

HasReadStatus(g) == g.pc = "done"

\* A store state agrees with every read the generation has made so far.
Agrees(g, st) ==
    /\ HasReadMeta(g) => ReadWindow(st, g.run) = g.found
    /\ HasReadCals(g) => st.calibration = g.all_calibrations
    /\ HasReadGeo(g) => st.geometry = g.geometry
    /\ HasReadStatus(g) => ReadStatus(st, g.run) = g.detector_status

\* History: the store states since the first read that agree with all reads.
Track(g, st) ==
    [g EXCEPT !.cand = {c \in (@ \cup {st}) : Agrees(g, c)}]

\* claims = req.extensions().get::<KeycloakClaims>().ok_or(InternalError)?
GenStart(run_num, claims) ==
    /\ gen.pc = "idle"
    /\ gen' = IF claims = None
              THEN [gen EXCEPT !.pc = "failed", !.run = run_num,
                               !.error = Some("InternalError")]
              ELSE [gen EXCEPT !.pc = "run_metadata", !.run = run_num,
                               !.claims = claims]
    /\ UNCHANGED <<calibration, geometry, detector_status, run_metadata, now, writes>>

\* A store read that returns Err: `?` ends the request with MongoError.
GenReadFails ==
    /\ gen.pc \in {"run_metadata", "calibrations", "geometry", "status"}
    /\ gen' = [gen EXCEPT !.pc = "failed", !.error = Some("MongoError")]
    /\ UNCHANGED <<calibration, geometry, detector_status, run_metadata, now, writes>>

\* run_metadata_col.find_one(..).await? and the match on its result.
GenReadRunMetadata ==
    /\ gen.pc = "run_metadata"
    /\ LET found == ReadWindow(Store, gen.run)
           w == Window(found, now)
           g == [gen EXCEPT !.pc = "calibrations", !.found = found,
                            !.meta_seen = run_metadata,
                            !.start_time = w[1], !.end_time = w[2]]
       IN  gen' = Track(g, Store)
    /\ UNCHANGED <<calibration, geometry, detector_status, run_metadata, now, writes>>

\* calibration_col.find(doc! {}).await?.try_collect() and the filter call.
GenReadCalibrations ==
    /\ gen.pc = "calibrations"
    /\ \E o \in IterOrders(calibration) :
        LET g == [gen EXCEPT !.pc = "geometry", !.all_calibrations = calibration,
                             !.filtered = filter_calibrations_for_run(
                                 calibration, gen.start_time, gen.end_time, o)]
        IN  gen' = Track(g, Store)
    /\ UNCHANGED <<calibration, geometry, detector_status, run_metadata, now, writes>>

\* geometry_col.find(doc! {}).await?.try_collect()
GenReadGeometry ==
    /\ gen.pc = "geometry"
    /\ gen' = Track([gen EXCEPT !.pc = "status", !.geometry = geometry], Store)
    /\ UNCHANGED <<calibration, geometry, detector_status, run_metadata, now, writes>>

\* A generation that writes the calibrations it resolved back to the store.
GenReadStatusStoring ==
    /\ gen.pc = "status"
    /\ gen' = Track([gen EXCEPT !.pc = "done",
                                !.detector_status = ReadStatus(Store, gen.run)], Store)
    /\ calibration' = calibration \o gen.filtered
    /\ UNCHANGED <<geometry, detector_status, run_metadata, now, writes>>

\* detector_status_col.find(doc! { "run_number": run_num as i32 }) and the
\* construction of the GCDCollection that is returned.
GenReadStatus ==
    /\ gen.pc = "status"
    /\ gen' = Track([gen EXCEPT !.pc = "done",
                                !.detector_status = ReadStatus(Store, gen.run)], Store)
    /\ UNCHANGED <<calibration, geometry, detector_status, run_metadata, now, writes>>

\* ------------------------------------------------------- the write handlers
\* A write request is served: the store becomes st. A handler stamps the
\* document it writes with Utc::now(); the clock is later at each request.
Commit(st) ==
    /\ writes < MaxWrites
    /\ writes' = writes + 1
    /\ calibration' = st.calibration
    /\ geometry' = st.geometry
    /\ detector_status' = st.detector_status
    /\ run_metadata' = st.run_metadata
    /\ gen' = IF HasReadMeta(gen) THEN Track(gen, st) ELSE gen
    /\ now' = now + 1

\* update_one with $set of every field: the document at index i, if any.
UpdateFirst(col, i, doc) == IF i = 0 THEN col ELSE [col EXCEPT ![i] = doc]

\* delete_one: the document at index i, if any.
DeleteFirst(col, i) == IF i = 0 THEN col ELSE RemoveAt(col, i)

\* The first document of a collection with the given key.
ByDom(col, d) == FirstIndex({j \in DOMAIN col : col[j].dom_id = d})

ByLocation(col, st, p) ==
    FirstIndex({j \in DOMAIN col : col[j].string = st /\ col[j].position = p})

ByRun(col, key) == FirstIndex({j \in DOMAIN col : KeyMatches(col[j].run_number, key)})

\* The write handlers below are requests that pass their checks; a request
\* that fails one (no claims, a failed store call) changes nothing.
\* A create that overwrites the record the device already has.
create_calibration_replacing(d, p) ==
    Commit([Store EXCEPT !.calibration =
        IF ByDom(@, d) = 0 THEN Append(@, Cal(d, p, now))
        ELSE UpdateFirst(@, ByDom(@, d), Cal(d, p, now))])

create_calibration(d, p) ==
    Commit([Store EXCEPT !.calibration = Append(@, Cal(d, p, now))])

update_calibration(d, p) ==
    Commit([Store EXCEPT !.calibration = UpdateFirst(@, ByDom(@, d), Cal(d, p, now))])

delete_calibration(d) ==
    Commit([Store EXCEPT !.calibration = DeleteFirst(@, ByDom(@, d))])

create_geometry(p) ==
    Commit([Store EXCEPT !.geometry = Append(@, Geo(1, p, now))])

update_geometry(p) ==
    Commit([Store EXCEPT !.geometry = UpdateFirst(@, ByLocation(@, 1, p), Geo(1, p, now))])

delete_geometry(p) ==
    Commit([Store EXCEPT !.geometry = DeleteFirst(@, ByLocation(@, 1, p))])

create_detector_status(d, b) ==
    Commit([Store EXCEPT !.detector_status = Append(@, Status(d, b, now))])

update_detector_status(d, b) ==
    Commit([Store EXCEPT !.detector_status =
        UpdateFirst(@, ByDom(@, d), Status(d, b, now))])

delete_detector_status(d) ==
    Commit([Store EXCEPT !.detector_status = DeleteFirst(@, ByDom(@, d))])

\* find_one for an existing record (ValidationError if there is one), then
\* insert_one.
create_run_metadata(r, s, e) ==
    /\ FindRunMetadata(run_metadata, AsI32(r)) = None
    /\ Commit([Store EXCEPT !.run_metadata = Append(@, RunMeta(r, s, e))])

\* find_one (NotFound if none), update_one with $set of the body, find_one.
update_run_metadata(path_run, r, s, e) ==
    /\ FindRunMetadata(run_metadata, AsI32(path_run)) # None
    /\ Commit([Store EXCEPT !.run_metadata =
        UpdateFirst(@, ByRun(@, AsI32(path_run)), RunMeta(r, s, e))])

\* delete_one; NotFound when deleted_count = 0.
delete_run_metadata(path_run) ==
    /\ FindRunMetadata(run_metadata, AsI32(path_run)) # None
    /\ Commit([Store EXCEPT !.run_metadata = DeleteFirst(@, ByRun(@, AsI32(path_run)))])

\* The end_time values a request body carries with start_time s.
BodyEnds(s) == {None, Some(s + 1)}

\* ------------------------------------------------ requests and responses
\* The generate_gcd_collection requests that can be in flight together.
Requests == {1, 2}

\* The email claim of the authenticated callers.
Callers == {"operator@example.com", "shifter@example.com"}

\* The strings Uuid::new_v4().to_string() can return.
Uuids == {"uuid-a", "uuid-b"}

\* The four store reads of generate_gcd_collection, in program order.
ReadOrder == <<"run_metadata", "calibrations", "geometry", "status">>

\* A collection that names the service, not the caller, as its generator.
GCDCollectionByService(run_num, email, cals, geo, status, id, clock) ==
    [run_number |-> run_num, generated_at |-> clock, generated_by |-> "gcdserver",
     calibrations |-> cals, geometry |-> geo, detector_status |-> status,
     collection_id |-> id]

\* GCDCollection { run_number, generated_at, generated_by, calibrations,
\*                 geometry, detector_status, collection_id }
GCDCollection(run_num, email, cals, geo, status, id, clock) ==
    [run_number |-> run_num, generated_at |-> clock, generated_by |-> email,
     calibrations |-> cals, geometry |-> geo, detector_status |-> status,
     collection_id |-> id]

ReqIdle ==
    [pc |-> "idle", run |-> <<0, 0>>, claims |-> None, error |-> None,
     reads |-> <<>>, start_time |-> 0, end_time |-> None,
     filtered_calibrations |-> <<>>, geometry_entries |-> <<>>,
     detector_statuses |-> <<>>, response |-> None, overlapped |-> FALSE,
     failed_read |-> None]

NoLookup == [id |-> None, issued |-> FALSE, error |-> None]

\* History: another request was between its first and last read when this
\* one arrived.
InFlight(i) == \E j \in Requests \ {i} : reqs[j].pc \in Range(ReadOrder)

\* The collection_id of every response returned so far.
Issued ==
    {reqs[i].response[1].collection_id : i \in {j \in Requests : reqs[j].response # None}}

\* Uuid::new_v4(): 122 random bits, taken never to repeat a value that was
\* returned before.
new_v4_repeating(issued) == Uuids

new_v4(issued) == Uuids \ issued

\* impl ResponseError for ApiError: status_code
status_code(err) ==
    CASE err = "NotFound" -> 404
      [] err = "ValidationError" -> 400
      [] err = "DatabaseError" -> 500
      [] err = "InternalError" -> 500
      [] err = "MongoError" -> 500

\* The HTTP status of a finished request: error_response() of the error, or
\* HttpResponse::Ok() with the collection.
StatusOf(r) ==
    IF r.error # None THEN status_code(r.error[1])
    ELSE IF r.response # None THEN 200 ELSE 0

\* A request arrives that does not start when another request for the same
\* run is in flight.
ReqStartExclusive(i, run_num, claims) ==
    /\ reqs[i].pc = "idle"
    /\ reqs' = [reqs EXCEPT ![i] =
          IF \E j \in Requests \ {i} :
                reqs[j].run = run_num /\ reqs[j].pc \in Range(ReadOrder)
          THEN [@ EXCEPT !.pc = "failed", !.run = run_num, !.claims = claims,
                         !.error = Some("ValidationError")]
          ELSE IF claims = None
          THEN [@ EXCEPT !.pc = "failed", !.run = run_num,
                         !.error = Some("InternalError")]
          ELSE [@ EXCEPT !.pc = "run_metadata", !.run = run_num, !.claims = claims,
                         !.overlapped = InFlight(i)]]
    /\ UNCHANGED lookup

\* claims = req.extensions().get::<KeycloakClaims>().ok_or(InternalError)?
ReqStart(i, run_num, claims) ==
    /\ reqs[i].pc = "idle"
    /\ reqs' = [reqs EXCEPT ![i] =
          IF claims = None
          THEN [@ EXCEPT !.pc = "failed", !.run = run_num,
                         !.error = Some("InternalError")]
          ELSE [@ EXCEPT !.pc = "run_metadata", !.run = run_num, !.claims = claims,
                         !.overlapped = InFlight(i)]]
    /\ UNCHANGED lookup

\* The position after a read.
AfterRead(pc) ==
    CASE pc = "run_metadata" -> "calibrations"
      [] pc = "calibrations" -> "geometry"
      [] pc = "geometry" -> "status"
      [] pc = "status" -> "done"

\* A handler that takes a failed read for an empty result and goes on.
ReqReadFailsAsEmpty(i) ==
    /\ reqs[i].pc \in Range(ReadOrder) \ {"status"}
    /\ reqs' = [reqs EXCEPT ![i] =
          [@ EXCEPT !.pc = AfterRead(reqs[i].pc),
                    !.reads = Append(@, reqs[i].pc),
                    !.failed_read = Some(reqs[i].pc)]]
    /\ UNCHANGED lookup

\* The read the request is at returns Err: `?` ends the request with
\* ApiError::MongoError. failed_read is history: the read the store failed.
ReqReadFails(i) ==
    /\ reqs[i].pc \in Range(ReadOrder)
    /\ reqs' = [reqs EXCEPT ![i] =
          [@ EXCEPT !.pc = "failed", !.error = Some("MongoError"),
                    !.reads = Append(@, reqs[i].pc),
                    !.failed_read = Some(reqs[i].pc)]]
    /\ UNCHANGED lookup

\* A handler that reports a missing run instead of using the synthetic window.
ReqReadRunMetadataRequired(i) ==
    /\ reqs[i].pc = "run_metadata"
    /\ LET found == ReadWindow(Store, reqs[i].run)
           w == Window(found, now)
       IN  reqs' = [reqs EXCEPT ![i] =
              IF found = None
              THEN [@ EXCEPT !.pc = "failed", !.error = Some("NotFound"),
                             !.reads = Append(@, "run_metadata")]
              ELSE [@ EXCEPT !.pc = "calibrations",
                             !.reads = Append(@, "run_metadata"),
                             !.start_time = w[1], !.end_time = w[2]]]
    /\ UNCHANGED lookup

\* run_metadata_col.find_one(..).await? and the match on its result.
ReqReadRunMetadata(i) ==
    /\ reqs[i].pc = "run_metadata"
    /\ LET w == Window(ReadWindow(Store, reqs[i].run), now)
       IN  reqs' = [reqs EXCEPT ![i] =
              [@ EXCEPT !.pc = "calibrations", !.reads = Append(@, "run_metadata"),
                        !.start_time = w[1], !.end_time = w[2]]]
    /\ UNCHANGED lookup

\* calibration_col.find(doc! {}).await?.try_collect() and the filter call.
ReqReadCalibrations(i) ==
    /\ reqs[i].pc = "calibrations"
    /\ \E o \in IterOrders(calibration) :
        reqs' = [reqs EXCEPT ![i] =
            [@ EXCEPT !.pc = "geometry", !.reads = Append(@, "calibrations"),
                      !.filtered_calibrations = filter_calibrations_for_run(
                          calibration, reqs[i].start_time, reqs[i].end_time, o)]]
    /\ UNCHANGED lookup

\* geometry_col.find(doc! {}).await?.try_collect()
ReqReadGeometry(i) ==
    /\ reqs[i].pc = "geometry"
    /\ reqs' = [reqs EXCEPT ![i] =
          [@ EXCEPT !.pc = "status", !.reads = Append(@, "geometry"),
                    !.geometry_entries = geometry]]
    /\ UNCHANGED lookup

\* detector_status_col.find(doc! { "run_number": run_num as i32 }), then
\* Uuid::new_v4(), the construction of the GCDCollection and the Ok response.
ReqReadStatus(i) ==
    /\ reqs[i].pc = "status"
    /\ \E id \in new_v4(Issued) :
        LET r == reqs[i]
            found == ReadStatus(Store, r.run)
        IN  reqs' = [reqs EXCEPT ![i] =
                [r EXCEPT !.pc = "done", !.reads = Append(@, "status"),
                          !.detector_statuses = found,
                          !.response = Some(GCDCollection(
                              r.run, r.claims[1], r.filtered_calibrations,
                              r.geometry_entries, found, id, now))]]
    /\ UNCHANGED lookup

\* A retrieval that finds the collections generate_gcd_collection returned.
get_gcd_collection_stored(id) ==
    /\ lookup' = [id |-> Some(id), issued |-> id \in Issued,
                  error |-> IF id \in Issued THEN None ELSE Some("NotFound")]
    /\ UNCHANGED reqs

\* get_gcd_collection: Err(ApiError::NotFound(..)) whatever the identifier.
get_gcd_collection(id) ==
    /\ lookup' = [id |-> Some(id), issued |-> id \in Issued,
                  error |-> Some("NotFound")]
    /\ UNCHANGED reqs

\* A detector_status document that carries a run_number.
StatusOfRun(d, b, t, r) ==
    [dom_id |-> d, is_bad |-> b, timestamp |-> t, run_number |-> Some(r)]

\* The contents of the collections the requests run against.
StoredCalibrations == {<<>>, <<Cal(161, "domcal", 1), Cal(162, "domcal", 2)>>}

StoredGeometry == {<<>>, <<Geo(1, 61, 1), Geo(1, 62, 1)>>}

StoredStatus ==
    {<<>>, <<Status(161, FALSE, 1), StatusOfRun(161, FALSE, 1, <<0, 1>>),
             StatusOfRun(162, FALSE, 1, <<1, 1>>)>>}

StoredRunMetadata == {<<>>, <<RunMeta(<<0, 1>>, 1, None)>>}

\* ------------------------------------------------------- the auth middleware
\* A request path is the sequence of its segments: "/auth/login" is
\* <<"auth", "login">>, "/auth" is <<"auth">>, "/auth/" is <<"auth", "">>.
GeneratePath == <<"gcd", "generate", "1">>

Paths ==
    {<<"health">>, <<"health", "">>, <<"healthz">>, <<"auth">>, <<"auth", "">>,
     <<"auth", "login">>, <<"calibration">>, GeneratePath}

\* A header value is the sequence of its pieces. "Bearer " is the scheme
\* prefix with its blank; the other pieces contain no blank.
\* "jwt-realm-operator" is a token that decodes under the realm key to the
\* claims of operator@example.com, "jwt-other-operator" one signed with
\* another key, "jwt-realm-expired" one past its exp; 0xff is a byte
\* HeaderValue::to_str refuses.
HeaderValues ==
    {<<"Bearer ", "jwt-realm-operator">>, <<"Bearer ", "jwt-other-operator">>,
     <<"Bearer ", "jwt-realm-expired">>, <<"Bearer ", "garbage">>,
     <<"Bearer ", "Bearer ", "jwt-realm-operator">>, <<"Bearer ">>,
     <<"Basic ", "jwt-realm-operator">>, <<"jwt-realm-operator">>,
     <<"bearer ", "jwt-realm-operator">>, <<"Bearer ", "0xff">>}

Headers == {None} \cup {Some(v) : v \in HeaderValues}

\* The public_key_pem the middleware is built with.
Pems == {"realm-key-pem", "not-a-pem"}

\* HeaderValue::to_str: Err when a byte is not visible ASCII.
to_str(value) == IF \E k \in DOMAIN value : value[k] = "0xff" THEN None ELSE Some(value)

\* str::starts_with
starts_with(value, prefix) == Len(value) >= 1 /\ value[1] = prefix

\* str::trim_start_matches: every leading repetition of the prefix is
\* removed.
RECURSIVE trim_start_matches(_, _)
trim_start_matches(value, prefix) ==
    IF starts_with(value, prefix) THEN trim_start_matches(Tail(value), prefix)
    ELSE value

\* DecodingKey::from_rsa_pem
from_rsa_pem(pem) == IF pem = "realm-key-pem" THEN Some("realm-key") ELSE None

\* jsonwebtoken::decode::<KeycloakClaims>: the claims, or None for Err.
decode(token, key) ==
    IF token = <<"jwt-realm-operator">> /\ key = "realm-key"
    THEN Some("operator@example.com") ELSE None

\* What a call of the middleware or of the application comes to: whether the
\* inner service (the handler) was called, the claims in the request
\* extensions at that moment, and the status the middleware answered itself.
Outcome(called, claims, status) ==
    [inner_called |-> called, claims |-> claims, status |-> status]

\* path == "/health" || path.starts_with("/auth/")
IsPublic(path) == path = <<"health">> \/ (Len(path) >= 2 /\ path[1] = "auth")

\* AuthMiddlewareService::call
AuthMiddlewareService_call(path, header, pem) ==
    IF IsPublic(path) THEN Outcome(TRUE, None, 0)
    ELSE IF header = None THEN Outcome(FALSE, None, 401)
    ELSE IF to_str(header[1]) = None THEN Outcome(FALSE, None, 401)
    ELSE IF ~starts_with(header[1], "Bearer ") THEN Outcome(FALSE, None, 401)
    ELSE LET auth_header == trim_start_matches(header[1], "Bearer ")
             key == from_rsa_pem(pem)
         IN  IF key = None THEN Outcome(FALSE, None, 500)
             ELSE IF decode(auth_header, key[1]) = None THEN Outcome(FALSE, None, 401)
             ELSE Outcome(TRUE, decode(auth_header, key[1]), 0)

\* The middleware main wraps the App in: .wrap(middleware::Logger::default())
AppWraps == {"Logger"}

\* The application main assembles, serving a request: the wrapped
\* middleware, then the handler the route names.
App_call(path, header, pem) ==
    IF "AuthMiddleware" \in AppWraps
    THEN AuthMiddlewareService_call(path, header, pem)
    ELSE Outcome(TRUE, None, 0)

\* The first lines of generate_gcd_collection: the error it returns when the
\* request extensions hold no KeycloakClaims.
ClaimsCheck(claims) == IF claims = None THEN Some("Authentication required") ELSE None

NoRequest ==
    [via |-> "none", path |-> <<>>, header |-> None, pem |-> "realm-key-pem",
     out |-> Outcome(FALSE, None, 0), error |-> None]

\* A request served by an application that is the middleware around a handler.
ServeWrapped(path, header, pem) ==
    /\ http' = [via |-> "middleware", path |-> path, header |-> header, pem |-> pem,
                out |-> AuthMiddlewareService_call(path, header, pem),
                error |-> None]
    /\ UNCHANGED jwt

\* A request served by the application of main; a request that reaches
\* generate_gcd_collection gets the outcome of its claims check.
ServeMain(path, header, pem) ==
    /\ LET out == App_call(path, header, pem)
       IN  http' = [via |-> "main", path |-> path, header |-> header, pem |-> pem,
                    out |-> out,
                    error |-> IF out.inner_called /\ path = GeneratePath
                              THEN ClaimsCheck(out.claims) ELSE None]
    /\ UNCHANGED jwt

\* ------------------------------------------------------------ JwtManager
Secrets == {"test_secret", "other_secret"}

UserIds == {"user123", "user456"}

ScopeLists == {<<>>, <<"read">>, <<"read", "write">>}

Providers == {"google", "github"}

\* JwtManager::new(secret, expiration_hours)
ExpirationHours == {0, 1}

HourSecs == 3600

\* Validation::default(): leeway of 60 seconds, algorithms [HS256].
Leeway == 60

\* Seconds from the generation of a token to its verification.
VerifyDelays == {0, HourSecs - 1, HourSecs, HourSecs + Leeway, HourSecs + Leeway + 1}

\* The clock when a token is generated.
IssueTime == 1000

\* jwt::Claims
Claims(sub, email, scopes, exp, iat, jti, provider) ==
    [sub |-> sub, email |-> email, scopes |-> scopes, exp |-> exp, iat |-> iat,
     jti |-> jti, provider |-> provider]

\* A serialisation that writes the email under "sub" as well.
SerializeSubAsEmail(c) ==
    <<<<"sub", c.email>>, <<"email", c.email>>, <<"scopes", c.scopes>>,
      <<"exp", c.exp>>, <<"iat", c.iat>>, <<"jti", c.jti>>,
      <<"provider", c.provider>>>>

\* #[derive(Serialize)] for Claims: the JSON object, as its members in the
\* order of the struct's fields.
Serialize(c) ==
    <<<<"sub", c.sub>>, <<"email", c.email>>, <<"scopes", c.scopes>>,
      <<"exp", c.exp>>, <<"iat", c.iat>>, <<"jti", c.jti>>,
      <<"provider", c.provider>>>>

\* The value of a member of a JSON object.
Member(json, name) == json[CHOOSE k \in DOMAIN json : json[k][1] = name][2]

\* #[derive(Deserialize)] for Claims
Deserialize(json) ==
    Claims(Member(json, "sub"), Member(json, "email"), Member(json, "scopes"),
           Member(json, "exp"), Member(json, "iat"), Member(json, "jti"),
           Member(json, "provider"))

\* encode(&Header::default(), &claims, &EncodingKey::from_secret(secret)):
\* header, payload and the HMAC of both under the secret.
encode(c, secret) ==
    [alg |-> "HS256", payload |-> Serialize(c),
     signature |-> <<secret, "HS256", Serialize(c)>>]

\* decode::<Claims>(token, &DecodingKey::from_secret(secret),
\* &Validation::default()): the algorithm, the signature and exp are checked,
\* then the payload is deserialised. None stands for Err.
decode_claims(token, secret, clock) ==
    IF token.alg # "HS256" THEN None
    ELSE IF token.signature # <<secret, token.alg, token.payload>> THEN None
    ELSE IF Member(token.payload, "exp") < clock - Leeway THEN None
    ELSE Some(Deserialize(token.payload))

NoToken ==
    [pc |-> "none", secret |-> "", user_id |-> "", email |-> "", scopes |-> <<>>,
     provider |-> "", expires_in |-> 0, access_token |-> None,
     verifier |-> "", verified_at |-> 0, verified |-> None]

\* JwtManager::generate_token
generate_token(secret, hours, user_id, email, scopes, provider) ==
    /\ \E jti \in Uuids :
        LET expires_at == IssueTime + hours * HourSecs
            claims == Claims(user_id, email, scopes, expires_at, IssueTime, jti, provider)
        IN  jwt' = [NoToken EXCEPT !.pc = "generated", !.secret = secret,
                        !.user_id = user_id, !.email = email, !.scopes = scopes,
                        !.provider = provider, !.expires_in = hours * HourSecs,
                        !.access_token = Some(encode(claims, secret))]
    /\ UNCHANGED http

\* JwtManager::verify_token of the manager built with `secret`, called
\* `delay` seconds after the token was generated.
verify_token(secret, delay) ==
    /\ jwt.pc = "generated"
    /\ jwt' = [jwt EXCEPT !.pc = "verified", !.verifier = secret,
                          !.verified_at = IssueTime + delay,
                          !.verified = decode_claims(jwt.access_token[1], secret,
                                                     IssueTime + delay)]
    /\ UNCHANGED http

\* ----------------------------------------------------- handler responses
\* The store call of a handler that returns Err, counted from 1 in program
\* order; 0 when every store call succeeds.
Faults == {0, 1, 2, 3}

\* What a handler call comes to: the collection afterwards, the ApiError it
\* returned (None for Ok) and the document in its Ok response.
Result(col, error, returned) == [col |-> col, error |-> error, returned |-> returned]

\* create_run_metadata: claims, find_one, the ValidationError for an existing
\* record, insert_one.
create_run_metadata_result(col, claims, r, s, e, fault) ==
    IF claims = None THEN Result(col, Some("InternalError"), None)
    ELSE IF fault = 1 THEN Result(col, Some("MongoError"), None)
    ELSE IF FindRunMetadata(col, AsI32(r)) # None
    THEN Result(col, Some("ValidationError"), None)
    ELSE IF fault = 2 THEN Result(col, Some("MongoError"), None)
    ELSE Result(Append(col, RunMeta(r, s, e)), None, Some(RunMeta(r, s, e)))

\* update_run_metadata: claims, find_one (NotFound), update_one with $set of
\* the body, find_one again (NotFound), the document found.
update_run_metadata_result(col, claims, path_run, r, s, e, fault) ==
    IF claims = None THEN Result(col, Some("InternalError"), None)
    ELSE IF fault = 1 THEN Result(col, Some("MongoError"), None)
    ELSE IF FindRunMetadata(col, AsI32(path_run)) = None
    THEN Result(col, Some("NotFound"), None)
    ELSE IF fault = 2 THEN Result(col, Some("MongoError"), None)
    ELSE LET updated == UpdateFirst(col, ByRun(col, AsI32(path_run)), RunMeta(r, s, e))
         IN  IF fault = 3 THEN Result(updated, Some("MongoError"), None)
             ELSE IF FindRunMetadata(updated, AsI32(path_run)) = None
             THEN Result(updated, Some("NotFound"), None)
             ELSE Result(updated, None, FindRunMetadata(updated, AsI32(path_run)))

\* delete_run_metadata: claims, delete_one, NotFound when deleted_count is 0.
delete_run_metadata_result(col, claims, path_run, fault) ==
    IF claims = None THEN Result(col, Some("InternalError"), None)
    ELSE IF fault = 1 THEN Result(col, Some("MongoError"), None)
    ELSE IF ByRun(col, AsI32(path_run)) = 0 THEN Result(col, Some("NotFound"), None)
    ELSE Result(DeleteFirst(col, ByRun(col, AsI32(path_run))), None, None)

\* get_latest_calibration: find_one({dom_id}), NotFound for None.
get_latest_calibration_result(col, d, fault) ==
    IF fault = 1 THEN Result(col, Some("MongoError"), None)
    ELSE IF ByDom(col, d) = 0 THEN Result(col, Some("NotFound"), None)
    ELSE Result(col, None, Some(col[ByDom(col, d)]))

NoCall ==
    [op |-> "none", claims |-> None, run |-> <<0, 0>>, dom_id |-> 0, body |-> None,
     fault |-> 0, error |-> None, returned |-> None, before |-> <<>>]

\* The store after a handler call: a call that changed a collection is a
\* write request served; any other call leaves the store as it is.
Served(st) ==
    IF st = Store
    THEN UNCHANGED <<calibration, geometry, detector_status, run_metadata, now,
                     writes, gen>>
    ELSE Commit(st)

Call_create_run_metadata(claims, r, s, e, fault) ==
    LET res == create_run_metadata_result(run_metadata, claims, r, s, e, fault)
    IN  /\ Served([Store EXCEPT !.run_metadata = res.col])
        /\ resp' = [NoCall EXCEPT !.op = "create_run_metadata", !.claims = claims,
                        !.run = r, !.body = Some(RunMeta(r, s, e)), !.fault = fault,
                        !.error = res.error, !.returned = res.returned,
                        !.before = run_metadata]

Call_update_run_metadata(claims, path_run, r, s, e, fault) ==
    LET res == update_run_metadata_result(run_metadata, claims, path_run, r, s, e, fault)
    IN  /\ Served([Store EXCEPT !.run_metadata = res.col])
        /\ resp' = [NoCall EXCEPT !.op = "update_run_metadata", !.claims = claims,
                        !.run = path_run, !.body = Some(RunMeta(r, s, e)),
                        !.fault = fault, !.error = res.error,
                        !.returned = res.returned, !.before = run_metadata]

Call_delete_run_metadata(claims, path_run, fault) ==
    LET res == delete_run_metadata_result(run_metadata, claims, path_run, fault)
    IN  /\ Served([Store EXCEPT !.run_metadata = res.col])
        /\ resp' = [NoCall EXCEPT !.op = "delete_run_metadata", !.claims = claims,
                        !.run = path_run, !.fault = fault, !.error = res.error,
                        !.before = run_metadata]

Call_get_latest_calibration(d, fault) ==
    LET res == get_latest_calibration_result(calibration, d, fault)
    IN  /\ UNCHANGED <<calibration, geometry, detector_status, run_metadata, now,
                       writes, gen>>
        /\ resp' = [NoCall EXCEPT !.op = "get_latest_calibration", !.dom_id = d,
                        !.fault = fault, !.error = res.error,
                        !.returned = res.returned, !.before = calibration]

\* ------------------------------------------------------------------ Spec
Init ==
    /\ in_cals = <<>>
    /\ in_start = 0
    /\ fpc = "off"
    /\ in2 = <<>>
    /\ end1 = None
    /\ end2 = None
    /\ out1 = <<>>
    /\ out2 = <<>>
    /\ calibration = <<>>
    /\ geometry = <<>>
    /\ detector_status = <<>>
    /\ run_metadata = <<>>
    /\ now = 1
    /\ writes = 0
    /\ gen = GenIdle
    /\ reqs = [i \in Requests |-> ReqIdle]
    /\ lookup = NoLookup
    /\ http = NoRequest
    /\ jwt = NoToken
    /\ resp = NoCall

Next ==
    \/ /\ UNCHANGED fvars
       /\ UNCHANGED gvars
       /\ UNCHANGED avars
       /\ \/ \E r \in Runs, c \in {None} \cup {Some(m) : m \in Emails} : GenStart(r, c)
          \/ GenReadFails
          \/ GenReadRunMetadata
          \/ GenReadCalibrations
          \/ GenReadGeometry
          \/ GenReadStatus
          \/ \E d \in Devices, p \in Payloads : create_calibration(d, p)
          \/ \E d \in Devices, p \in Payloads : update_calibration(d, p)
          \/ \E d \in Devices : delete_calibration(d)
          \/ \E p \in Positions : create_geometry(p)
          \/ \E p \in Positions : update_geometry(p)
          \/ \E p \in Positions : delete_geometry(p)
          \/ \E d \in Devices, b \in Flags : create_detector_status(d, b)
          \/ \E d \in Devices, b \in Flags : update_detector_status(d, b)
          \/ \E d \in Devices : delete_detector_status(d)
          \/ \E r \in Runs, s \in Times : \E e \in BodyEnds(s) : create_run_metadata(r, s, e)
          \/ \E pr, r \in Runs, s \in Times : \E e \in BodyEnds(s) :
                update_run_metadata(pr, r, s, e)
          \/ \E pr \in Runs : delete_run_metadata(pr)

Spec == Init /\ [][Next]_vars

\* ------------------------------------------------------------- SpecFilter
\* Every list of at most MaxLen records; the payload of a record is its
\* position, so that records of one device and timestamp stay distinct.
InputLists ==
    UNION {{[i \in 1..n |-> Cal(dt[i][1], i, dt[i][2])] :
              dt \in [1..n -> Devices \X Times]} : n \in 0..MaxLen}

\* The values _run_end takes: absent, before the start, after the start.
RunEnds(run_start) == {None, Some(run_start - 1), Some(run_start + 1)}

FInit ==
    /\ in_cals \in InputLists
    /\ in_start \in StartTimes
    /\ fpc = "input"
    /\ in2 = <<>>
    /\ end1 = None
    /\ end2 = None
    /\ out1 = <<>>
    /\ out2 = <<>>
    /\ calibration = <<>>
    /\ geometry = <<>>
    /\ detector_status = <<>>
    /\ run_metadata = <<>>
    /\ now = 1
    /\ writes = 0
    /\ gen = GenIdle
    /\ reqs = [i \in Requests |-> ReqIdle]
    /\ lookup = NoLookup
    /\ http = NoRequest
    /\ jwt = NoToken
    /\ resp = NoCall

\* Two calls with the same list and the same arguments.
CallTwice ==
    /\ fpc = "input"
    /\ \E e \in RunEnds(in_start), o1, o2 \in IterOrders(in_cals) :
        /\ end1' = e
        /\ end2' = e
        /\ in2' = in_cals
        /\ out1' = filter_calibrations_for_run(in_cals, in_start, e, o1)
        /\ out2' = filter_calibrations_for_run(in_cals, in_start, e, o2)
    /\ fpc' = "twice"
    /\ UNCHANGED <<in_cals, in_start>>

\* A call with the list and a call with a permutation of it.
CallShuffled ==
    /\ fpc = "input"
    /\ \E p \in Perms(Len(in_cals)) :
        LET shuffled == Permute(in_cals, p)
        IN  \E o1 \in IterOrders(in_cals), o2 \in IterOrders(shuffled) :
                /\ in2' = shuffled
                /\ out1' = filter_calibrations_for_run(in_cals, in_start, None, o1)
                /\ out2' = filter_calibrations_for_run(shuffled, in_start, None, o2)
    /\ end1' = None
    /\ end2' = None
    /\ fpc' = "shuffled"
    /\ UNCHANGED <<in_cals, in_start>>

\* Two calls that differ in _run_end only.
CallRunEnds ==
    /\ fpc = "input"
    /\ \E e1, e2 \in RunEnds(in_start), o1, o2 \in IterOrders(in_cals) :
        /\ e1 # e2
        /\ end1' = e1
        /\ end2' = e2
        /\ in2' = in_cals
        /\ out1' = filter_calibrations_for_run(in_cals, in_start, e1, o1)
        /\ out2' = filter_calibrations_for_run(in_cals, in_start, e2, o2)
    /\ fpc' = "ends"
    /\ UNCHANGED <<in_cals, in_start>>

FNext ==
    /\ UNCHANGED svars
    /\ UNCHANGED gvars
    /\ UNCHANGED avars
    /\ \/ CallTwice
       \/ CallShuffled
       \/ CallRunEnds

SpecFilter == FInit /\ [][FNext]_vars

\* ----------------------------------------------------------- SpecRequests
RInit ==
    /\ in_cals = <<>>
    /\ in_start = 0
    /\ fpc = "off"
    /\ in2 = <<>>
    /\ end1 = None
    /\ end2 = None
    /\ out1 = <<>>
    /\ out2 = <<>>
    /\ calibration \in StoredCalibrations
    /\ geometry \in StoredGeometry
    /\ detector_status \in StoredStatus
    /\ run_metadata \in StoredRunMetadata
    /\ now = 1
    /\ writes = 0
    /\ gen = GenIdle
    /\ reqs = [i \in Requests |-> ReqIdle]
    /\ lookup = NoLookup
    /\ http = NoRequest
    /\ jwt = NoToken
    /\ resp = NoCall

RNext ==
    /\ UNCHANGED fvars
    /\ UNCHANGED svars
    /\ UNCHANGED avars
    /\ \/ \E i \in Requests, r \in Runs, c \in {None} \cup {Some(m) : m \in Callers} :
            ReqStart(i, r, c)
       \/ \E i \in Requests : ReqReadFails(i)
       \/ \E i \in Requests : ReqReadRunMetadata(i)
       \/ \E i \in Requests : ReqReadCalibrations(i)
       \/ \E i \in Requests : ReqReadGeometry(i)
       \/ \E i \in Requests : ReqReadStatus(i)
       \/ \E id \in Uuids : get_gcd_collection(id)

SpecRequests == RInit /\ [][RNext]_vars

\* --------------------------------------------------------------- SpecAuth
AInit ==
    /\ in_cals = <<>>
    /\ in_start = 0
    /\ fpc = "off"
    /\ in2 = <<>>
    /\ end1 = None
    /\ end2 = None
    /\ out1 = <<>>
    /\ out2 = <<>>
    /\ calibration = <<>>
    /\ geometry = <<>>
    /\ detector_status = <<>>
    /\ run_metadata = <<>>
    /\ now = 1
    /\ writes = 0
    /\ gen = GenIdle
    /\ reqs = [i \in Requests |-> ReqIdle]
    /\ lookup = NoLookup
    /\ http = NoRequest
    /\ jwt = NoToken
    /\ resp = NoCall

ANext ==
    /\ UNCHANGED fvars
    /\ UNCHANGED svars
    /\ UNCHANGED gvars
    /\ UNCHANGED resp
    /\ \/ \E p \in Paths, h \in Headers, k \in Pems : ServeWrapped(p, h, k)
       \/ \E p \in Paths, h \in Headers, k \in Pems : ServeMain(p, h, k)

SpecAuth == AInit /\ [][ANext]_vars

\* ---------------------------------------------------------------- SpecJwt
JNext ==
    /\ UNCHANGED fvars
    /\ UNCHANGED svars
    /\ UNCHANGED gvars
    /\ UNCHANGED resp
    /\ \/ \E s \in Secrets, n \in ExpirationHours, u \in UserIds, m \in Callers,
             sc \in ScopeLists, pr \in Providers :
                generate_token(s, n, u, m, sc, pr)
       \/ \E s \in Secrets, d \in VerifyDelays : verify_token(s, d)

SpecJwt == AInit /\ [][JNext]_vars

\* ----------------------------------------------------------- SpecHandlers
HNext ==
    /\ UNCHANGED fvars
    /\ UNCHANGED gvars
    /\ UNCHANGED <<http, jwt>>
    /\ \/ \E c \in {None} \cup {Some(m) : m \in Emails}, r \in Runs, s \in Times,
             f \in Faults : \E e \in BodyEnds(s) :
                Call_create_run_metadata(c, r, s, e, f)
       \/ \E c \in {None} \cup {Some(m) : m \in Emails}, pr, r \in Runs, s \in Times,
             f \in Faults : \E e \in BodyEnds(s) :
                Call_update_run_metadata(c, pr, r, s, e, f)
       \/ \E c \in {None} \cup {Some(m) : m \in Emails}, pr \in Runs, f \in Faults :
                Call_delete_run_metadata(c, pr, f)
       \/ \E d \in Devices, f \in Faults : Call_get_latest_calibration(d, f)
       \/ /\ UNCHANGED resp
          /\ \/ \E d \in Devices, p \in Payloads : create_calibration(d, p)
             \/ \E d \in Devices, p \in Payloads : update_calibration(d, p)
             \/ \E d \in Devices : delete_calibration(d)

SpecHandlers == AInit /\ [][HNext]_vars

\* ------------------------------------------------- claims under SpecFilter
\* The timestamps of the records of device d in a list.
DevTimes(cals, d) == {cals[i].timestamp : i \in {j \in DOMAIN cals : cals[j].dom_id = d}}

\* The records returned for device d.
OutFor(out, d) == {out[i] : i \in {j \in DOMAIN out : out[j].dom_id = d}}

AtOrBefore(cals, d, start) == {t \in DevTimes(cals, d) : t <= start}

DevStamps(out) == {<<out[i].dom_id, out[i].timestamp>> : i \in DOMAIN out}

\* C1: every device with a record at or before run_start (equality included)
\* gets a record of the input whose timestamp is the greatest of its
\* timestamps that are <= run_start.
C1_LatestAtOrBefore ==
    fpc # "input" =>
        \A d \in Devices :
            AtOrBefore(in_cals, d, in_start) # {} =>
                /\ OutFor(out1, d) # {}
                /\ \A r \in OutFor(out1, d) :
                    /\ r \in Range(in_cals)
                    /\ r.timestamp = Max(AtOrBefore(in_cals, d, in_start))

C1_Witness ==
    /\ fpc = "twice"
    /\ \E d \in Devices :
        /\ DevTimes(in_cals, d) = {1, 2}
        /\ in_start = 1
        /\ \E r \in OutFor(out1, d) : r.timestamp = in_start

\* C2: every device all of whose records are after run_start gets a record
\* with the smallest of its timestamps (its oldest record).
C2_FallbackOldest ==
    fpc # "input" =>
        \A d \in Devices :
            (DevTimes(in_cals, d) # {} /\ AtOrBefore(in_cals, d, in_start) = {}) =>
                /\ OutFor(out1, d) # {}
                /\ \A r \in OutFor(out1, d) :
                    /\ r \in Range(in_cals)
                    /\ r.timestamp = Min(DevTimes(in_cals, d))

C2_Witness ==
    /\ fpc = "twice"
    /\ in_start = 0
    /\ \E d \in Devices :
        /\ DevTimes(in_cals, d) = {1, 2}
        /\ \E r \in OutFor(out1, d) : r.timestamp = 1

\* C4: the device keys of the output are exactly the distinct device keys of
\* the input, each exactly once.
C4_OnePerDevice ==
    fpc # "input" =>
        /\ {out1[i].dom_id : i \in DOMAIN out1} = GroupKeys(in_cals)
        /\ \A i, j \in DOMAIN out1 : out1[i].dom_id = out1[j].dom_id => i = j

C4_Witness ==
    /\ fpc = "twice"
    /\ Len(in_cals) = 3
    /\ Cardinality(GroupKeys(in_cals)) = 2
    /\ Len(out1) = 2

\* C5 as stated: a permutation of the input list never changes the set of
\* records returned.
C5_Original == fpc = "shuffled" => Range(out1) = Range(out2)

\* The timestamp picked for device d is carried by one record of d only.
PickUnique(cals, out, d) ==
    \A r \in OutFor(out, d) :
        Cardinality({i \in DOMAIN cals :
            cals[i].dom_id = d /\ cals[i].timestamp = r.timestamp}) = 1

\* C5 amended: a permutation of the input list never changes the set of
\* (device, timestamp) pairs returned, and the record returned for a device
\* is the same whenever the timestamp picked for it is carried by only one
\* of its records.
C5_OrderIndependent ==
    fpc = "shuffled" =>
        /\ DevStamps(out1) = DevStamps(out2)
        /\ \A d \in Devices :
            PickUnique(in_cals, out1, d) => OutFor(out1, d) = OutFor(out2, d)

C5_Witness ==
    /\ fpc = "shuffled"
    /\ Len(in_cals) = 3
    /\ in2 # in_cals
    /\ \E d \in Devices :
        /\ Cardinality(DevTimes(in_cals, d)) = 2
        /\ in2[1].dom_id = d /\ in_cals[1].dom_id = d
        /\ in2[1].timestamp # in_cals[1].timestamp
        /\ OutFor(out1, d) # {}
        /\ OutFor(out1, d) = OutFor(out2, d)

\* C6 as stated: two calls with the same list and the same run start return
\* the same Vec.
C6_Original == fpc = "twice" => out1 = out2

\* C6 amended: two calls with the same list and the same run start return
\* the same records, one per device; the order of the two Vecs may differ.
C6_SameRecords ==
    fpc = "twice" => (Range(out1) = Range(out2) /\ Len(out1) = Len(out2))

C6_Witness ==
    /\ fpc = "twice"
    /\ Len(out1) = 2
    /\ out1 # out2
    /\ Range(out1) = Range(out2)

\* C7: two calls that differ only in run_end (absent, before the start or
\* after it) select the same records.
C7_RunEndUnused == fpc = "ends" => Range(out1) = Range(out2)

C7_Witness ==
    /\ fpc = "ends"
    /\ end1 = None
    /\ end2 = Some(in_start - 1)
    /\ \E d \in Devices :
        /\ DevTimes(in_cals, d) = {1, 2}
        /\ in_start = 2
        /\ \E r \in OutFor(out2, d) : r.timestamp = 2

\* C27: filter_calibrations_for_run returns for every input list and every
\* run start, one record of the input per group; an empty list gives an
\* empty Vec; every group of the HashMap is non-empty, so the selection of
\* a group comes from find or from last and never from cals[0].
C27_TotalNoDefensiveBranch ==
    fpc # "input" =>
        /\ Len(out1) = Cardinality(GroupKeys(in_cals))
        /\ Range(out1) \subseteq Range(in_cals)
        /\ (in_cals = <<>> => out1 = <<>>)
        /\ \A d \in GroupKeys(in_cals) :
            /\ GroupOf(in_cals, d) # <<>>
            /\ SelectBranch(GroupOf(in_cals, d), in_start) \in {"find", "last"}

C27_Witness ==
    /\ fpc = "ends"
    /\ Len(in_cals) = 3
    /\ Len(out1) = 2
    /\ \E d, e \in GroupKeys(in_cals) :
        /\ SelectBranch(GroupOf(in_cals, d), in_start) = "last"
        /\ SelectBranch(GroupOf(in_cals, e), in_start) = "find"


\* The positions in the input list of the records of device d that carry
\* timestamp t; the payload of an input record is its position.
TiedPositions(cals, d, t) ==
    {i \in DOMAIN cals : cals[i].dom_id = d /\ cals[i].timestamp = t}

\* C28 as stated: among the records of a device that share the picked
\* timestamp, the one returned is the first in input order, in the find
\* branch and in the fallback branch alike.
C28_Original ==
    fpc # "input" =>
        \A d \in Devices : \A r \in OutFor(out1, d) :
            r.domcal = Min(TiedPositions(in_cals, d, r.timestamp))

\* C28 amended: the group is ordered by timestamp descending with input
\* order as the secondary key; find returns the first record of that order
\* at or before run_start, which is the first in input order of the tied
\* records, and the fallback returns the last record of that order, which
\* is the last in input order of the records tied at the oldest timestamp.
C28_TieBreak ==
    fpc # "input" =>
        \A d \in Devices : \A r \in OutFor(out1, d) :
            IF AtOrBefore(in_cals, d, in_start) # {}
            THEN r.domcal = Min(TiedPositions(in_cals, d, r.timestamp))
            ELSE r.domcal = Max(TiedPositions(in_cals, d, r.timestamp))

C28_Witness ==
    /\ fpc = "twice"
    /\ Len(in_cals) = 3
    /\ \E d \in Devices :
        /\ AtOrBefore(in_cals, d, in_start) = {}
        /\ \E r \in OutFor(out1, d) :
            /\ Cardinality(TiedPositions(in_cals, d, r.timestamp)) = 2
            /\ r.domcal = Max(TiedPositions(in_cals, d, r.timestamp))
            /\ r.timestamp < Max(DevTimes(in_cals, d))

\* ------------------------------------------------------- claims under Spec
\* The documents of a run_metadata collection whose run_number is run_num.
StoredFor(col, run_num) == {i \in DOMAIN col : col[i].run_number = run_num}

C8_StoredWindowUsed ==
    HasReadMeta(gen) =>
        /\ StoredFor(gen.meta_seen, gen.run) # {} =>
            \E i \in StoredFor(gen.meta_seen, gen.run) :
                /\ gen.found = Some(gen.meta_seen[i])
                /\ gen.start_time = gen.meta_seen[i].start_time
                /\ gen.end_time = gen.meta_seen[i].end_time
        /\ gen.found = None => StoredFor(gen.meta_seen, gen.run) = {}

C10_PointInTime == gen.pc = "done" => gen.cand # {}

\* C17: a step of generate_gcd_collection, one that ends the request with
\* an error included, leaves the calibration, geometry, detector_status and
\* run_metadata collections as they were: the generation writes nothing.
C17_GenerationWritesNothing ==
    [][gen'.pc # gen.pc =>
        UNCHANGED <<calibration, geometry, detector_status, run_metadata>>]_vars

C17_Witness ==
    /\ gen.pc = "done"
    /\ gen.filtered # <<>>
    /\ gen.geometry # <<>>
    /\ gen.cand = {Store}

\* C19: the run_metadata collection never holds two documents with the
\* same run number.
C19_OneRecordPerRun ==
    \A i, j \in DOMAIN run_metadata :
        run_metadata[i].run_number = run_metadata[j].run_number => i = j

\* C20 as stated: the calibration collection never holds two documents
\* with the same device key.
C20_OneRecordPerDevice ==
    \A i, j \in DOMAIN calibration :
        calibration[i].dom_id = calibration[j].dom_id => i = j

\* C20 amended: a create_calibration request for a device key can be served
\* in every state, whether or not the collection holds documents of that
\* key, and it adds one document to the collection and changes no other; the
\* collection can therefore hold several documents per device key.
C20_CreateAlwaysAdds ==
    \A d \in Devices, p \in Payloads :
        writes < MaxWrites =>
            ENABLED (/\ create_calibration(d, p)
                     /\ calibration' = Append(calibration, Cal(d, p, now)))

C20_Witness ==
    \E i, j \in DOMAIN calibration :
        /\ i < j
        /\ calibration[i].dom_id = calibration[j].dom_id
        /\ calibration[i].timestamp < calibration[j].timestamp


\* C29: the documents that create_detector_status and update_detector_status
\* write carry no run_number, so with a detector_status collection written
\* by these handlers only, the status set of every generated snapshot is
\* empty, whatever the run.
C29_HandlerStatusNeverInSnapshot ==
    /\ \A i \in DOMAIN detector_status : detector_status[i].run_number = None
    /\ gen.pc = "done" => gen.detector_status = <<>>

C29_Witness ==
    /\ gen.pc = "done"
    /\ gen.run = <<0, 1>>
    /\ gen.detector_status = <<>>
    /\ writes = 1
    /\ Len(detector_status) = 1
    /\ gen.cand # {}
    /\ \A c \in gen.cand : c.detector_status = detector_status


\* C30: for every u32 run number, those of 2^31 and above included, the
\* i32 key of the store queries equals the requested run number, so a
\* generation for run R finds the record stored for run R.
C30_KeyFindsStoredRun ==
    HasReadMeta(gen) =>
        /\ KeyMatches(gen.run, AsI32(gen.run))
        /\ (StoredFor(gen.meta_seen, gen.run) # {} =>
                (gen.found # None /\ gen.found[1].run_number = gen.run))

\* ----------------------------------------------- claims under SpecRequests
\* The snapshot a request returned.
Snapshot(i) == reqs[i].response[1]

Returned == {i \in Requests : reqs[i].response # None}

ReqSucceeds(i) ==
    \/ ReqReadRunMetadata(i)
    \/ ReqReadCalibrations(i)
    \/ ReqReadGeometry(i)
    \/ ReqReadStatus(i)

SameContent(a, b) ==
    /\ Range(a.calibrations) = Range(b.calibrations)
    /\ Len(a.calibrations) = Len(b.calibrations)
    /\ Range(a.geometry) = Range(b.geometry)
    /\ Range(a.detector_status) = Range(b.detector_status)

\* C12: two requests for the same run that overlap in time, the store not
\* being written, return snapshots with different identifiers and the same
\* calibration, geometry and status sets; a request in flight can always
\* take its next step, and a request fails only for want of claims or
\* because one of its own store reads failed.
C12_ConcurrentSameContent ==
    /\ \A i, j \in Returned :
        (i # j /\ reqs[i].run = reqs[j].run) =>
            /\ Snapshot(i).collection_id # Snapshot(j).collection_id
            /\ SameContent(Snapshot(i), Snapshot(j))
    /\ \A i \in Requests :
        /\ reqs[i].pc \in Range(ReadOrder) => ENABLED ReqSucceeds(i)
        /\ reqs[i].pc = "failed" =>
            \/ reqs[i].claims = None /\ reqs[i].error = Some("InternalError")
            \/ reqs[i].reads # <<>> /\ reqs[i].error = Some("MongoError")

C12_Witness ==
    /\ Returned = Requests
    /\ reqs[1].run = reqs[2].run
    /\ reqs[2].overlapped
    /\ Len(Snapshot(1).calibrations) = 2
    /\ Snapshot(1).calibrations # Snapshot(2).calibrations
    /\ Snapshot(1).geometry # <<>>
    /\ Snapshot(1).detector_status # <<>>
    /\ SameContent(Snapshot(1), Snapshot(2))

\* The stored detector_status documents whose run_number is run_num.
StatusOfRunStored(run_num) ==
    {detector_status[k] :
        k \in {j \in DOMAIN detector_status :
                  detector_status[j].run_number = Some(run_num)}}

C14_SnapshotWheneverReadsSucceed ==
    \A i \in Requests :
        /\ (reqs[i].reads = ReadOrder /\ reqs[i].failed_read = None) =>
            /\ reqs[i].pc = "done"
            /\ reqs[i].response # None
            /\ reqs[i].error = None
            /\ StatusOf(reqs[i]) = 200
        /\ (reqs[i].claims # None /\ reqs[i].error # None) => reqs[i].failed_read # None
        /\ (reqs[i].response # None /\ calibration = <<>>) =>
            /\ Snapshot(i).calibrations = <<>>
            /\ Snapshot(i).geometry = geometry

C14_Witness ==
    \E i \in Returned :
        /\ run_metadata = <<>>
        /\ calibration = <<>>
        /\ detector_status = <<>>
        /\ Snapshot(i).calibrations = <<>>
        /\ Snapshot(i).geometry # <<>>
        /\ StatusOf(reqs[i]) = 200

\* The reads a request issued up to and including a given one.
ReadsThrough(name) ==
    SubSeq(ReadOrder, 1, CHOOSE k \in DOMAIN ReadOrder : ReadOrder[k] = name)

\* C15: when a store read of a request fails, the request ends with the
\* store's error (MongoError, status 500) and no snapshot; the reads it
\* issued are the reads before the failed one and the failed one, each once;
\* a returned snapshot (status 200), empty sets or not, has no failed read.
C15_ReadFailureEndsRequest ==
    \A i \in Requests :
        /\ reqs[i].failed_read # None =>
            /\ reqs[i].pc = "failed"
            /\ reqs[i].error = Some("MongoError")
            /\ reqs[i].response = None
            /\ reqs[i].reads = ReadsThrough(reqs[i].failed_read[1])
            /\ StatusOf(reqs[i]) = 500
        /\ reqs[i].response # None =>
            /\ reqs[i].failed_read = None
            /\ StatusOf(reqs[i]) = 200

C15_Witness ==
    /\ reqs[1].failed_read = Some("geometry")
    /\ reqs[1].reads = <<"run_metadata", "calibrations", "geometry">>
    /\ StatusOf(reqs[1]) = 500
    /\ 2 \in Returned
    /\ Snapshot(2).calibrations = <<>>
    /\ Snapshot(2).geometry = <<>>
    /\ Snapshot(2).detector_status = <<>>

\* C16: get_gcd_collection answers NotFound (status 404) for every
\* identifier, the collection_id of a returned snapshot included.
C16_AlwaysNotFound ==
    lookup.id # None =>
        /\ lookup.error = Some("NotFound")
        /\ status_code(lookup.error[1]) = 404

C16_Witness ==
    /\ lookup.issued
    /\ \E i \in Returned : lookup.id = Some(Snapshot(i).collection_id)
    /\ lookup.error = Some("NotFound")

\* C18: a returned snapshot carries the run number of its request and the
\* email claim of the caller of that request; a request without claims ends
\* with an error and no snapshot before it has issued any store read.
C18_RunAndCaller ==
    \A i \in Requests :
        /\ reqs[i].response # None =>
            /\ Snapshot(i).run_number = reqs[i].run
            /\ reqs[i].claims # None
            /\ Snapshot(i).generated_by = reqs[i].claims[1]
        /\ (reqs[i].pc # "idle" /\ reqs[i].claims = None) =>
            /\ reqs[i].pc = "failed"
            /\ reqs[i].error = Some("InternalError")
            /\ reqs[i].response = None
            /\ reqs[i].reads = <<>>

C18_Witness ==
    /\ Returned = {1}
    /\ Snapshot(1).run_number = <<1, 1>>
    /\ Snapshot(1).generated_by = "shifter@example.com"
    /\ reqs[2].pc = "failed"
    /\ reqs[2].claims = None
    /\ reqs[2].reads = <<>>

\* --------------------------------------------------- claims under SpecAuth
\* C21: in the application of main, a generate request with a valid bearer
\* token reaches generate_gcd_collection with its claims attached and is not
\* answered "Authentication required".
C21_ValidTokenReachesHandler ==
    (/\ http.via = "main"
     /\ http.path = GeneratePath
     /\ http.header = Some(<<"Bearer ", "jwt-realm-operator">>)
     /\ http.pem = "realm-key-pem") =>
        /\ http.out.inner_called
        /\ http.out.claims # None
        /\ http.error # Some("Authentication required")

\* The header is "Bearer <token>" and the token decodes under the key.
ValidBearer(header, pem) ==
    /\ header # None
    /\ to_str(header[1]) # None
    /\ starts_with(header[1], "Bearer ")
    /\ from_rsa_pem(pem) # None
    /\ decode(Tail(header[1]), from_rsa_pem(pem)[1]) # None

C22_RoundTrip ==
    (/\ jwt.pc = "verified"
     /\ jwt.verifier = jwt.secret
     /\ jwt.verified_at < IssueTime + jwt.expires_in) =>
        /\ jwt.verified # None
        /\ jwt.verified[1].sub = jwt.user_id
        /\ jwt.verified[1].email = jwt.email
        /\ jwt.verified[1].scopes = jwt.scopes
        /\ jwt.verified[1].provider = jwt.provider

C22_Witness ==
    /\ jwt.pc = "verified"
    /\ jwt.verifier = jwt.secret
    /\ jwt.verified_at = IssueTime + HourSecs - 1
    /\ jwt.scopes = <<"read", "write">>
    /\ jwt.verified # None
    /\ jwt.verified[1].sub = "user456"
    /\ jwt.verified[1].scopes = <<"read", "write">>

\* ----------------------------------------------- claims under SpecHandlers
\* The documents of run r in a run_metadata collection.
RecordsOfRun(col, r) == {i \in DOMAIN col : col[i].run_number = r}

\* C23: create_run_metadata for a run that has a stored record returns
\* ValidationError and leaves run_metadata unchanged; it inserts a record
\* only when the run has none.
C23_CreateRejectsExisting ==
    resp.op = "create_run_metadata" =>
        /\ (resp.claims # None /\ resp.fault = 0 /\ RecordsOfRun(resp.before, resp.run) # {}) =>
            /\ resp.error = Some("ValidationError")
            /\ run_metadata = resp.before
        /\ run_metadata # resp.before => RecordsOfRun(resp.before, resp.run) = {}

\* C24: update_run_metadata returns NotFound only when the path's run has no
\* stored record, a call that returns NotFound leaves run_metadata
\* unchanged, and when the run has a record the call returns the record of
\* that run with the start and end time of the body.
C24_UpdateNotFoundOrUpdated ==
    (resp.op = "update_run_metadata" /\ resp.claims # None /\ resp.fault = 0) =>
        /\ resp.error = Some("NotFound") =>
            /\ RecordsOfRun(resp.before, resp.run) = {}
            /\ run_metadata = resp.before
        /\ RecordsOfRun(resp.before, resp.run) # {} =>
            /\ resp.error = None
            /\ resp.returned # None
            /\ resp.returned[1].run_number = resp.run
            /\ resp.returned[1].start_time = resp.body[1].start_time
            /\ resp.returned[1].end_time = resp.body[1].end_time

\* C26: get_latest_calibration returns the record of greatest timestamp
\* among the device's stored records, and NotFound when the device has none.
C26_LatestIsNewest ==
    (resp.op = "get_latest_calibration" /\ resp.fault = 0) =>
        IF DevTimes(resp.before, resp.dom_id) = {}
        THEN resp.error = Some("NotFound")
        ELSE /\ resp.error = None
             /\ resp.returned # None
             /\ resp.returned[1].dom_id = resp.dom_id
             /\ resp.returned[1].timestamp = Max(DevTimes(resp.before, resp.dom_id))

====
